---- MODULE Spec2Model ----
(***************************************************************************)
(* A model of circbuf::CircularBuffer<T> (include/circbuf/circular_buffer  *)
(* .hpp) on top of circbuf::detail::RawBuffer<T> (include/circbuf/detail/  *)
(* raw_buffer.hpp).                                                        *)
(*                                                                         *)
(* Physical slots are numbered from 0 as in the source.  A RawBuffer is a  *)
(* record holding the arena (m_data), its length (m_size) and the debug    *)
(* liveness bitset (m_constructed).  Four history flags record what went   *)
(* on during the operation in progress:                                    *)
(*   asserted  an assert of construct()/destroy() would have fired, or the *)
(*             offset was outside the arena;                               *)
(*   wild      at() touched a slot that holds no live element;             *)
(*   leaked    the allocation was released while a slot was still live;    *)
(*   divided   size() divided by a capacity of zero.                       *)
(* Memory that holds no live element is kept as Garbage; what a read of    *)
(* such memory yields during a call is the call's `junk`, any value.       *)
(*                                                                         *)
(* The older CircularBuffer<T> of include/circular_buffer.hpp, an array of *)
(* default-constructed T without policies, is modelled next to it; a run   *)
(* exercises one of the two classes (`subject`).                           *)
(*                                                                         *)
(* `second` is a second buffer made from the first by copy construction,   *)
(* linearizeCopy() or a move; it lives until its destructor runs.  A walk  *)
(* from begin() to end() is one step that records the visited values.      *)
(* `cursor` is an Iterator taken by begin() + n and dereferenced after     *)
(* later calls.  Spec runs every operation; DequeSpec runs the four end    *)
(* operations alone, CursorSpec the end operations and remove around a     *)
(* cursor.                                                                 *)
(***************************************************************************)
EXTENDS Integers, Sequences, FiniteSets, TLC

\* ---------------------------------------------------------------- bounds
MaxCap == 3     \* largest capacity a buffer is constructed with or resized to
MaxGrown == 4   \* largest capacity a buffer grows to on its own
MaxPush == 5    \* longest run of push_back calls whose history is kept

\* ------------------------------------------------------------- constants
Word == 65536                 \* std::size_t arithmetic is modulo Word
npos == Word - 1              \* std::numeric_limits<std::size_t>::max()
Garbage == 0                  \* content of raw memory / of a moved-from T

\* The element type T is opaque to the buffer, which never compares or
\* inspects an element: two distinguishable values show any misplacement.
Values == {1, 2}

VARIABLES
    subject,    \* the class under test: "circbuf" or "legacy"
    buf,        \* the circbuf::CircularBuffer under test
    leg,        \* the legacy CircularBuffer under test
    second,     \* a second buffer made from the one under test by a copy, a
                \* move or linearizeCopy(); it lives until it is destroyed
    cursor,     \* an Iterator taken from the buffer under test, kept across
                \* later calls on the buffer
    pre,        \* the buffer under test as it was when the last call was made
    last,       \* the last operation: name, arguments, error, return value
    pushed,     \* history: the values pushed at the back since construction,
                \* kept while nothing but push_back (push) has been called
    alive       \* no call has trapped or run into undefined behaviour

vars == <<subject, buf, leg, second, cursor, pre, last, pushed, alive>>

\* --------------------------------------------------------------- RawBuffer
RawBuffer(size) ==
    [ m_size        |-> size,
      m_data        |-> [i \in 0 .. size - 1 |-> Garbage],
      m_constructed |-> [i \in 0 .. size - 1 |-> FALSE],
      asserted      |-> FALSE,
      wild          |-> FALSE,
      leaked        |-> FALSE,
      divided       |-> FALSE,
      junk          |-> Garbage ]

inArena(rb, offset) == offset \in 0 .. rb.m_size - 1

isLive(rb, offset) == inArena(rb, offset) /\ rb.m_constructed[offset]

\* T& RawBuffer::construct(offset, args...)
construct(rb, offset, value) ==
    IF inArena(rb, offset)
    THEN [rb EXCEPT !.asserted = @ \/ rb.m_constructed[offset],
                    !.m_constructed[offset] = TRUE,
                    !.m_data[offset] = value]
    ELSE [rb EXCEPT !.asserted = TRUE]

\* void RawBuffer::destroy(offset)
destroy(rb, offset) ==
    IF inArena(rb, offset)
    THEN [rb EXCEPT !.asserted = @ \/ ~rb.m_constructed[offset],
                    !.m_constructed[offset] = FALSE,
                    !.m_data[offset] = Garbage]
    ELSE [rb EXCEPT !.asserted = TRUE]

\* the value read through RawBuffer::at(pos)
at(rb, pos) == IF isLive(rb, pos) THEN rb.m_data[pos] ELSE rb.junk

\* the arena after at(pos) was evaluated (read or written through)
touch(rb, pos) == [rb EXCEPT !.wild = @ \/ ~isLive(rb, pos)]

\* the arena after std::move(at(pos)) was consumed: the source is left
\* moved-from (the tests' NonTrivialType leaves 0 behind)
moveOut(rb, pos) ==
    IF inArena(rb, pos)
    THEN [touch(rb, pos) EXCEPT !.m_data[pos] = Garbage]
    ELSE touch(rb, pos)

\* at(pos) = std::move(value)
assign(rb, pos, value) ==
    IF inArena(rb, pos)
    THEN [touch(rb, pos) EXCEPT !.m_data[pos] = value]
    ELSE touch(rb, pos)

\* RawBuffer& RawBuffer::operator=(RawBuffer&& other): the old allocation is
\* deallocated without looking at m_constructed
rawAssign(rb, other) ==
    [other EXCEPT !.asserted = @ \/ rb.asserted,
                  !.wild     = @ \/ rb.wild,
                  !.divided  = @ \/ rb.divided,
                  !.junk     = rb.junk,
                  !.leaked   = @ \/ rb.leaked
                                 \/ (\E i \in 0 .. rb.m_size - 1 : rb.m_constructed[i])]

\* ---------------------------------------------------------- CircularBuffer
Policies == [m_capacity : {"FixedCapacity", "DynamicCapacity"},
             m_store    : {"ReplaceOnFull", "ThrowOnFull"}]

\* CircularBuffer(std::size_t capacity, BufferPolicy policy)
CircularBuffer(cap, policy) ==
    [ m_buffer |-> RawBuffer(cap),
      m_head   |-> 0,
      m_tail   |-> IF cap = 0 THEN npos ELSE 0,
      m_policy |-> policy ]

capacity(b) == b.m_buffer.m_size

\* size() divides by capacity(): undefined when capacity() == 0 and m_tail != npos
divByZero(b) == capacity(b) = 0 /\ b.m_tail # npos

\* std::size_t CircularBuffer::size()
size(b) ==
    IF b.m_tail = npos THEN capacity(b)
    ELSE IF capacity(b) = 0 THEN 0
    ELSE ((b.m_tail + capacity(b) + Word - b.m_head) % Word) % capacity(b)

\* the buffer after a call evaluated size() on it
sized(b) == [b EXCEPT !.m_buffer.divided = @ \/ divByZero(b)]

empty(b) == size(b) = 0
full(b) == size(b) = capacity(b)
linearized(b) == b.m_head = 0

\* increment() that forgets to wrap around the end of the arena
increment_noWrap(b, index) == (index + 1) % Word

\* std::size_t CircularBuffer::increment(std::size_t& index)
increment(b, index) ==
    IF (index + 1) % Word = capacity(b) THEN 0 ELSE (index + 1) % Word

\* std::size_t CircularBuffer::decrement(std::size_t& index)
decrement(b, index) ==
    IF index = 0 THEN (capacity(b) + Word - 1) % Word ELSE index - 1

\* the physical slot of logical position pos: (m_head + pos) % capacity()
realpos(b, pos) ==
    IF capacity(b) = 0 THEN 0 ELSE ((b.m_head + pos) % Word) % capacity(b)

\* the logical sequence, as read through at(0) .. at(size() - 1)
Logical(b) == [i \in 1 .. size(b) |-> at(b.m_buffer, realpos(b, i - 1))]

\* the set of physical slots the debug bitset marks as constructed
LiveSlots(b) == {i \in 0 .. capacity(b) - 1 : b.m_buffer.m_constructed[i]}

\* the result of a call: the buffer afterwards, the exception thrown
\* ("none" when the call returned) and the value returned
Result(b, err, ret) == [b |-> b, err |-> err, ret |-> ret]


\* the element of a singleton: Only({e(x) : x \in {v}}) is e(v), with v
\* evaluated once
Only(S) == CHOOSE x \in S : TRUE

\* the loop of clear(): destroy((m_head + i) % capacity()) for i in [i, n)
RECURSIVE clearLoop(_, _, _, _)
clearLoop(rb, head, i, n) ==
    IF i >= n THEN rb
    ELSE Only({ clearLoop(x, head, i + 1, n) :
                  x \in {destroy(rb, ((head + i) % Word) % rb.m_size)} })

\* void CircularBuffer::clear()
clear(b) ==
    Only({ [c EXCEPT !.m_buffer = clearLoop(c.m_buffer, c.m_head, 0, size(c)),
                     !.m_head   = 0,
                     !.m_tail   = 0] :
             c \in {sized(b)} })

\* the loop of the growing branch of resize(): element i of the new arena is
\* moved from slot (m_head + i) % capacity(), then slot i is destroyed
RECURSIVE growLoop(_, _, _, _, _)
growLoop(old, new, head, i, n) ==
    IF i >= n THEN [old |-> old, new |-> new]
    ELSE LET idx == ((head + i) % Word) % old.m_size
         IN  Only({ growLoop(o, w, head, i + 1, n) :
                      o \in {destroy(moveOut(old, idx), i)},
                      w \in {construct(new, i, at(old, idx))} })

\* the loop of the DiscardOld branch of resize()
RECURSIVE discardOldLoop(_, _, _, _, _)
discardOldLoop(old, new, begin, i, n) ==
    IF i >= n THEN [old |-> old, new |-> new]
    ELSE LET idx == ((begin + i) % Word) % old.m_size
         IN  Only({ discardOldLoop(o, w, begin, i + 1, n) :
                      o \in {destroy(moveOut(old, idx), idx)},
                      w \in {construct(new, i, at(old, idx))} })

\* the loop of the DiscardNew branch of resize(): i counts down to 0
RECURSIVE discardNewLoop(_, _, _, _)
discardNewLoop(old, new, end, i) ==
    IF i = 0 THEN [old |-> old, new |-> new]
    ELSE LET e == ((end + old.m_size + Word - 1) % Word) % old.m_size
         IN  Only({ discardNewLoop(o, w, e, i - 1) :
                      o \in {destroy(moveOut(old, e), e)},
                      w \in {construct(new, i - 1, at(old, e))} })

Min(a, b) == IF a <= b THEN a ELSE b

\* the branch of resize() taken when newCapacity > capacity()
resizeGrow(b, newCapacity) ==
    Only({ [b EXCEPT !.m_tail   = IF b.m_tail = npos THEN capacity(b)
                                  ELSE ((b.m_tail + capacity(b) + Word - b.m_head) % Word)
                                           % capacity(b),
                     !.m_buffer = rawAssign(r.old, r.new),
                     !.m_head   = 0] :
             r \in {growLoop(b.m_buffer, RawBuffer(newCapacity), b.m_head, 0, size(b))} })

\* the branch of resize() taken when newCapacity < capacity()
resizeShrink(b, newCapacity, policy) ==
    LET count  == size(b)
        offset == IF count <= newCapacity THEN 0 ELSE count - newCapacity
        n      == Min(newCapacity, count)
        begin  == ((b.m_head + offset) % Word) % capacity(b)
        end0   == IF b.m_tail = npos THEN b.m_head ELSE b.m_tail
        end    == ((end0 + capacity(b) + Word - offset) % Word) % capacity(b)
    IN  Only({ [b EXCEPT !.m_buffer = rawAssign(r.old, r.new),
                         !.m_head   = 0,
                         !.m_tail   = IF count <= newCapacity THEN count ELSE npos] :
                 r \in {IF policy = "DiscardOld"
                        THEN discardOldLoop(b.m_buffer, RawBuffer(newCapacity), begin, 0, n)
                        ELSE discardNewLoop(b.m_buffer, RawBuffer(newCapacity), end, n)} })

\* void CircularBuffer::resize(newCapacity, policy)
resize(b, newCapacity, policy) ==
    IF newCapacity = 0 THEN
        [clear(b) EXCEPT !.m_tail = npos]
    ELSE IF newCapacity = capacity(b) THEN
        b
    ELSE Only({ IF size(c) = 0 THEN
                    [c EXCEPT !.m_buffer = rawAssign(c.m_buffer, RawBuffer(newCapacity)),
                              !.m_head   = 0,
                              !.m_tail   = 0]
                ELSE IF newCapacity > capacity(c) THEN
                    resizeGrow(c, newCapacity)
                ELSE
                    resizeShrink(c, newCapacity, policy) :
                  c \in {sized(b)} })

\* the guard on a full buffer without its throw: ThrowOnFull is treated as
\* ReplaceOnFull
fullGuard_neverThrows(b) ==
    IF b.m_tail # npos THEN Result(b, "none", Garbage)
    ELSE IF b.m_policy.m_capacity = "DynamicCapacity"
    THEN Result(resize(b, (capacity(b) * 2) % Word, "DiscardOld"), "none", Garbage)
    ELSE Result(b, "none", Garbage)

\* the guard on a full buffer that opens push_front(), push_back() and insert()
fullGuard(b) ==
    IF b.m_tail # npos THEN Result(b, "none", Garbage)
    ELSE IF b.m_policy.m_capacity = "DynamicCapacity"
    THEN Result(resize(b, (capacity(b) * 2) % Word, "DiscardOld"), "none", Garbage)
    ELSE IF b.m_policy.m_store = "ThrowOnFull"
    THEN Result(b, "BufferFull", Garbage)
    ELSE Result(b, "none", Garbage)

\* the guard on a buffer of capacity 0 that opens push_front(), push_back()
\* and insert(), followed by the guard on a full buffer
growOrThrow(b) ==
    IF capacity(b) # 0 THEN fullGuard(b)
    ELSE IF b.m_policy.m_capacity = "DynamicCapacity"
    THEN Only({ fullGuard(b1) : b1 \in {resize(b, 1, "DiscardOld")} })
    ELSE Result(b, "ZeroCapacity", Garbage)

\* push_back() past its guards
pushBackAt(c, value) ==
    IF c.m_tail # npos THEN
        LET current == c.m_tail
            tail    == increment(c, c.m_tail)
            d       == [c EXCEPT !.m_buffer = construct(c.m_buffer, current, value),
                                 !.m_tail   = IF tail = c.m_head THEN npos ELSE tail]
        IN  Result(d, "none", value)
    ELSE
        LET current == c.m_head
            d       == [c EXCEPT !.m_buffer = assign(c.m_buffer, current, value),
                                 !.m_head   = increment(c, c.m_head)]
        IN  Result(d, "none", value)

\* T& CircularBuffer::push_back(T&& value)
push_back(b, value) ==
    Only({ IF g.err # "none" THEN g ELSE pushBackAt(g.b, value) :
             g \in {growOrThrow(b)} })

\* push_front() past its guards
pushFrontAt(c, value) ==
    LET current == IF c.m_head = 0 THEN (capacity(c) + Word - 1) % Word ELSE c.m_head - 1
    IN  IF c.m_tail # npos THEN
            LET d == [c EXCEPT !.m_buffer = construct(c.m_buffer, current, value),
                               !.m_head   = current,
                               !.m_tail   = IF current = c.m_tail THEN npos ELSE @]
            IN  Result(d, "none", value)
        ELSE
            LET d == [c EXCEPT !.m_buffer = assign(c.m_buffer, current, value),
                               !.m_head   = current]
            IN  Result(d, "none", value)

\* T& CircularBuffer::push_front(T&& value)
push_front(b, value) ==
    Only({ IF g.err # "none" THEN g ELSE pushFrontAt(g.b, value) :
             g \in {growOrThrow(b)} })

\* the shrink that closes pop_front(), pop_back() and remove()
shrinkIfQuarter(b) ==
    IF b.m_policy.m_capacity = "DynamicCapacity" /\ size(b) = capacity(b) \div 4
    THEN resize(b, capacity(b) \div 2, "DiscardOld")
    ELSE b

\* T CircularBuffer::pop_front()
pop_front(b) ==
    IF size(b) = 0 THEN Result(sized(b), "BufferEmpty", Garbage)
    ELSE Only({ Result(shrinkIfQuarter(c), "none", at(b.m_buffer, b.m_head)) :
                  c \in {[b EXCEPT !.m_buffer = destroy(moveOut(b.m_buffer, b.m_head), b.m_head),
                                   !.m_tail   = IF @ = npos THEN b.m_head ELSE @,
                                   !.m_head   = increment(b, b.m_head)]} })

\* a pop_back that takes the element at the head
pop_back_takesFront(b) == pop_front(b)

\* T CircularBuffer::pop_back()
pop_back(b) ==
    IF size(b) = 0 THEN Result(sized(b), "BufferEmpty", Garbage)
    ELSE
        LET from  == IF b.m_tail = npos THEN b.m_head ELSE b.m_tail
            index == IF from = 0 THEN (capacity(b) + Word - 1) % Word ELSE from - 1
        IN  Only({ Result(shrinkIfQuarter(c), "none", at(b.m_buffer, index)) :
                     c \in {[b EXCEPT !.m_buffer = destroy(moveOut(b.m_buffer, index), index),
                                      !.m_tail   = index]} })

\* the while loop of insert(): every element from pos up to the old tail moves
\* one slot toward the tail
RECURSIVE insertShift(_, _, _, _)
insertShift(rb, cap, current, pos) ==
    IF current = pos THEN rb
    ELSE LET prev == IF current = 0 THEN (cap + Word - 1) % Word ELSE current - 1
         IN  Only({ insertShift(x, cap, prev, pos) :
                      x \in {assign(moveOut(rb, prev), current, at(rb, prev))} })

\* insert() past its guards and its eviction; pos is the physical slot
insertAt(c, pos, value) ==
    LET current == c.m_tail
        prev    == decrement(c, current)
        tail    == increment(c, c.m_tail)
    IN  Only({ Result([c EXCEPT !.m_buffer = rb,
                                !.m_tail   = IF tail = c.m_head THEN npos ELSE tail],
                      "none", value) :
                 rb \in {IF pos # c.m_tail
                         THEN Only({ assign(insertShift(r1, capacity(c), prev, pos), pos, value) :
                                       r1 \in {construct(moveOut(c.m_buffer, prev), current,
                                                         at(c.m_buffer, prev))} })
                         ELSE construct(c.m_buffer, current, value)} })

\* the eviction of insert() on a buffer that is still full after its guards
evict(b, policy) ==
    IF b.m_tail # npos THEN b
    ELSE IF policy = "DiscardHead" THEN pop_front(b).b
    ELSE pop_back(b).b

\* T& CircularBuffer::insert(pos, T&& value, policy)
insert(b, pos, value, policy) ==
    Only({ IF g.err # "none" THEN g
           ELSE Only({ insertAt(c, realpos(c, pos), value) : c \in {evict(g.b, policy)} }) :
             g \in {growOrThrow(b)} })

\* the for loop of remove(): every element after realpos moves one slot
\* toward the head
RECURSIVE removeShift(_, _, _, _)
removeShift(rb, rp, i, count) ==
    IF i >= count THEN rb
    ELSE LET current == ((rp + i) % Word) % rb.m_size
             next    == ((rp + i + 1) % Word) % rb.m_size
         IN  Only({ removeShift(x, rp, i + 1, count) :
                      x \in {assign(moveOut(rb, next), current, at(rb, next))} })

\* T CircularBuffer::remove(pos)
remove(b, pos) ==
    IF pos >= size(b) THEN Result(sized(b), "OutOfRange", Garbage)
    ELSE
        LET count == size(b) - pos - 1
            rp    == realpos(b, pos)
            tail  == IF b.m_tail = npos THEN b.m_head ELSE b.m_tail
        IN  Only({ Result(shrinkIfQuarter(c), "none", at(b.m_buffer, rp)) :
                     c \in {[b EXCEPT
                               !.m_buffer = destroy(removeShift(moveOut(b.m_buffer, rp),
                                                                rp, 0, count),
                                                    ((rp + count) % Word) % capacity(b)),
                               !.m_tail   = decrement(b, tail)]} })

\* std::rotate(data(), data() + m_head, data() + capacity()): the whole arena
\* is rotated, the liveness bitset is not
rotate(rb, head) ==
    [rb EXCEPT !.m_data = [i \in 0 .. rb.m_size - 1 |-> rb.m_data[(i + head) % rb.m_size]],
               !.wild   = @ \/ (\E i \in 0 .. rb.m_size - 1 : ~rb.m_constructed[i])]

\* linearize() that rotates the arena but leaves m_head where it was
linearize_keepsHead(b) ==
    IF linearized(b) THEN b
    ELSE [b EXCEPT !.m_buffer = rotate(b.m_buffer, b.m_head),
                   !.m_tail   = IF b.m_tail # npos
                                THEN ((b.m_tail + capacity(b) + Word - b.m_head) % Word)
                                         % capacity(b)
                                ELSE npos]

\* CircularBuffer& CircularBuffer::linearize()
linearize(b) ==
    IF linearized(b) THEN b
    ELSE [b EXCEPT !.m_buffer = rotate(b.m_buffer, b.m_head),
                   !.m_tail   = IF b.m_tail # npos
                                THEN ((b.m_tail + capacity(b) + Word - b.m_head) % Word)
                                         % capacity(b)
                                ELSE npos,
                   !.m_head   = 0]


\* std::span<T> CircularBuffer::data(): the view is slots 0 .. size() - 1 of
\* the arena; full() is only evaluated when head != 0
data(b) ==
    IF ~linearized(b) /\ ~full(b)
    THEN Result(sized(b), "NotLinearizedNotFull", Garbage)
    ELSE Result(sized(b), "none", [i \in 1 .. size(b) |-> at(b.m_buffer, i - 1)])

\* auto& CircularBuffer::at(pos), and the caller's read through the
\* reference it returns
CircularBuffer_at(b, pos) ==
    IF pos >= size(b) THEN Result(sized(b), "OutOfRange", Garbage)
    ELSE Result([b EXCEPT !.m_buffer = touch(@, realpos(b, pos))],
                "none", at(b.m_buffer, realpos(b, pos)))

\* void CircularBuffer::setPolicy(storagePolicy, storePolicy); "nullopt" stands
\* for an empty optional
setPolicy(b, storagePolicy, storePolicy) ==
    [b EXCEPT !.m_policy.m_capacity = IF storagePolicy # "nullopt" THEN storagePolicy ELSE @,
              !.m_policy.m_store    = IF storePolicy # "nullopt" THEN storePolicy ELSE @]

\* the loop of the copy constructor: slot i of the new arena is constructed
\* from other.m_buffer.at(i), the physical slot i of the source
RECURSIVE copyLoop(_, _, _, _)
copyLoop(src, new, i, n) ==
    IF i >= n THEN new
    ELSE Only({ copyLoop(src, x, i + 1, n) :
                  x \in {construct([new EXCEPT !.wild = @ \/ ~isLive(src, i)],
                                   i, at(src, i))} })

\* CircularBuffer(const CircularBuffer& other): an arena of the same size,
\* the cursors and the policy of other, then the loop over this->size()
CircularBuffer_copy(other) ==
    Only({ [c EXCEPT !.m_buffer = copyLoop(other.m_buffer, c.m_buffer, 0, size(c))] :
             c \in {sized([ m_buffer |-> [RawBuffer(capacity(other)) EXCEPT
                                              !.junk = other.m_buffer.junk],
                            m_head   |-> other.m_head,
                            m_tail   |-> other.m_tail,
                            m_policy |-> other.m_policy ])} })

\* a linearizeCopy that drops the policy it is given
linearizeCopy_sourcePolicy(b, policy) == CircularBuffer_copy(b)

\* CircularBuffer linearizeCopy(std::optional<BufferPolicy> policy) const; the
\* optional is the empty set or the set of its value
linearizeCopy(b, policy) ==
    LET newPolicy == IF policy = {} THEN b.m_policy ELSE Only(policy)
    IN  setPolicy(CircularBuffer_copy(b), newPolicy.m_capacity, newPolicy.m_store)

\* what std::exchange leaves in the source of a move: a default RawBuffer,
\* head 0, tail npos and a default BufferPolicy
MovedFrom ==
    [ m_buffer |-> RawBuffer(0),
      m_head   |-> 0,
      m_tail   |-> npos,
      m_policy |-> [m_capacity |-> "FixedCapacity", m_store |-> "ReplaceOnFull"] ]

\* CircularBuffer(CircularBuffer&& other): the new object and what is left of
\* other
CircularBuffer_move(other) == [to |-> other, from |-> MovedFrom]

\* CircularBuffer& operator=(CircularBuffer&& other) on the object b
moveAssign(b, other) ==
    Only({ [to   |-> [other EXCEPT !.m_buffer = rawAssign(c.m_buffer, other.m_buffer)],
            from |-> MovedFrom] :
             c \in {clear(b)} })

\* ~CircularBuffer() { clear(); } followed by ~RawBuffer(), which asserts that
\* no slot is still constructed
destructor(b) ==
    Only({ [c EXCEPT !.m_buffer.asserted = @ \/ LiveSlots(c) # {},
                     !.m_buffer.leaked   = @ \/ LiveSlots(c) # {}] :
             c \in {clear(b)} })

\* ------------------------------------------------- the legacy CircularBuffer
\* CircularBuffer(std::size_t capacity): make_unique<T[]>(capacity) holds
\* value-initialized elements; undefined records an access outside the array
\* or a division by zero
LegacyBuffer(cap) ==
    [ m_buffer   |-> [i \in 0 .. cap - 1 |-> Garbage],
      m_capacity |-> cap,
      m_begin    |-> 0,
      m_end      |-> 0,
      undefined  |-> FALSE ]

\* size() divides by capacity(): undefined when capacity() == 0 and m_end != npos
legacy_divByZero(l) == l.m_capacity = 0 /\ l.m_end # npos

\* std::size_t CircularBuffer::size()
legacy_size(l) ==
    IF l.m_end = npos THEN l.m_capacity
    ELSE IF l.m_capacity = 0 THEN 0
    ELSE ((l.m_end + l.m_capacity + Word - l.m_begin) % Word) % l.m_capacity

\* m_buffer[pos] = value
legacy_store(l, pos, value) ==
    IF pos \in 0 .. l.m_capacity - 1
    THEN [l EXCEPT !.m_buffer[pos] = value]
    ELSE [l EXCEPT !.undefined = TRUE]

\* ++index == capacity() ? 0 : index
legacy_next(l, index) ==
    IF (index + 1) % Word = l.m_capacity THEN 0 ELSE (index + 1) % Word

\* Iterator<> CircularBuffer::push(T&& event); the iterator is returned as the
\* value it points at
legacy_push(l, event) ==
    IF l.m_end # npos THEN
        LET end == legacy_next(l, l.m_end)
        IN  Result([legacy_store(l, l.m_end, event) EXCEPT
                        !.m_end = IF end = l.m_begin THEN npos ELSE end],
                   "none", event)
    ELSE
        Result([legacy_store(l, l.m_begin, event) EXCEPT
                    !.m_begin = legacy_next(l, l.m_begin)],
               "none", event)

\* std::optional<T> CircularBuffer::pop(); `left` is what the move leaves in
\* the slot (the value itself for a trivial T, T{} for the tests'
\* NonTrivialType)
legacy_pop(l, left) ==
    IF legacy_size(l) = 0
    THEN Result([l EXCEPT !.undefined = legacy_divByZero(l)], "nullopt", Garbage)
    ELSE Result([legacy_store(l, l.m_begin, left) EXCEPT
                     !.m_end   = IF @ = npos THEN l.m_begin ELSE @,
                     !.m_begin = legacy_next(l, l.m_begin)],
                "none", l.m_buffer[l.m_begin])

\* void CircularBuffer::reset()
legacy_reset(l) == [l EXCEPT !.m_begin = 0, !.m_end = 0]

\* void CircularBuffer::clear()
legacy_clear(l) ==
    [l EXCEPT !.m_begin  = 0,
              !.m_end    = 0,
              !.m_buffer = [i \in 0 .. l.m_capacity - 1 |-> Garbage]]

\* void CircularBuffer::resize(newCapacity, policy): make_unique<T[]> gives
\* value-initialized elements; the growing branch copies the whole array
\* rotated by m_begin, the shrinking branch moves min(newCapacity, count)
\* elements
legacy_resize(l, newCapacity, policy) ==
    IF newCapacity = l.m_capacity THEN l
    ELSE IF legacy_divByZero(l) THEN [l EXCEPT !.undefined = TRUE]
    ELSE IF legacy_size(l) = 0 THEN LegacyBuffer(newCapacity)
    ELSE IF newCapacity > l.m_capacity THEN
        [ m_buffer   |-> [i \in 0 .. newCapacity - 1 |->
                            IF i < l.m_capacity
                            THEN l.m_buffer[(l.m_begin + i) % l.m_capacity]
                            ELSE Garbage],
          m_capacity |-> newCapacity,
          m_begin    |-> 0,
          m_end      |-> legacy_size(l),
          undefined  |-> FALSE ]
    ELSE
        LET count  == legacy_size(l)
            offset == IF count <= newCapacity THEN 0 ELSE count - newCapacity
            n      == Min(newCapacity, count)
            begin  == (l.m_begin + offset) % l.m_capacity
            end    == ((IF l.m_end = npos THEN l.m_begin ELSE l.m_end)
                            + l.m_capacity - offset) % l.m_capacity
        IN  [ m_buffer   |-> [i \in 0 .. newCapacity - 1 |->
                                IF i >= n THEN Garbage
                                ELSE IF policy = "DISCARD_OLD"
                                THEN l.m_buffer[(begin + i) % l.m_capacity]
                                ELSE l.m_buffer[(end + l.m_capacity - (n - i)) % l.m_capacity]],
              m_capacity |-> newCapacity,
              m_begin    |-> 0,
              m_end      |-> IF count <= newCapacity THEN count ELSE npos,
              undefined  |-> FALSE ]

\* the array after std::rotate / std::rotate_copy around m_begin
legacy_rotated(l) ==
    [i \in 0 .. l.m_capacity - 1 |-> l.m_buffer[(l.m_begin + i) % l.m_capacity]]

\* m_end != npos ? (m_end + capacity() - m_begin) % capacity() : npos
legacy_linearEnd(l) ==
    IF l.m_end = npos THEN npos
    ELSE IF l.m_capacity = 0 THEN 0
    ELSE (l.m_end + l.m_capacity - l.m_begin) % l.m_capacity

\* CircularBuffer& CircularBuffer::linearize()
legacy_linearize(l) ==
    IF l.m_begin = 0 /\ l.m_end = npos THEN l
    ELSE [l EXCEPT !.m_buffer  = legacy_rotated(l),
                   !.m_end     = legacy_linearEnd(l),
                   !.m_begin   = 0,
                   !.undefined = legacy_divByZero(l)]

\* CircularBuffer CircularBuffer::linearizeCopy() const
legacy_linearizeCopy(l) ==
    [ m_buffer   |-> legacy_rotated(l),
      m_capacity |-> l.m_capacity,
      m_begin    |-> 0,
      m_end      |-> legacy_linearEnd(l),
      undefined  |-> legacy_divByZero(l) ]

\* the logical sequence of the legacy buffer
LegacyLogical(l) ==
    [i \in 1 .. legacy_size(l) |-> l.m_buffer[((l.m_begin + i - 1) % Word) % l.m_capacity]]

\* ---- iterators --------------------------------------------------------
\* circbuf Iterator: a logical index and the size() taken at construction
Iterator(b, current) == [m_index |-> current, m_size |-> size(b)]

CircularBuffer_begin(b) == Iterator(b, 0)
CircularBuffer_end(b) == Iterator(b, npos)

\* operator+=: unsigned addition, then any index past m_size becomes npos
Iterator_advance(it, n) ==
    LET index == (it.m_index + n) % Word
    IN  [it EXCEPT !.m_index = IF index >= it.m_size THEN npos ELSE index]

\* operator*: throws at npos, otherwise at(m_index) with its own range check
Iterator_deref(b, it) ==
    IF it.m_index = npos THEN Result(b, "OutOfRange", Garbage)
    ELSE CircularBuffer_at(b, it.m_index)

\* for (it = begin(); it != end(); ++it) visit(*it), as a range algorithm
\* walks the buffer; an exception thrown by *it ends the walk
RECURSIVE walk(_, _, _)
walk(b, it, visited) ==
    IF it = CircularBuffer_end(b) THEN Result(b, "none", visited)
    ELSE Only({ IF r.err # "none" \/ r.b.m_buffer.wild
                THEN Result(r.b, r.err, Append(visited, r.ret))
                ELSE walk(r.b, Iterator_advance(it, 1), Append(visited, r.ret)) :
                  r \in {Iterator_deref(b, it)} })

\* begin() and end() each construct an Iterator, which calls size()
iterate(b) ==
    Only({ IF s.m_buffer.divided THEN Result(s, "none", << >>)
           ELSE walk(s, CircularBuffer_begin(s), << >>) : s \in {sized(b)} })

\* legacy Iterator: a physical index and the index it started from
legacy_Iterator(index) == [m_index |-> index, m_index_original |-> index]

legacy_begin(l) == legacy_Iterator(l.m_begin)
legacy_end(l) == legacy_Iterator(l.m_end)

\* legacy operator++: wraps at capacity(), becomes npos on reaching the
\* index the iterator started from
legacy_increment(l, it) ==
    IF it.m_index = npos THEN it
    ELSE LET index == IF (it.m_index + 1) % Word = l.m_capacity
                      THEN 0 ELSE (it.m_index + 1) % Word
         IN  [it EXCEPT !.m_index = IF index = it.m_index_original THEN npos ELSE index]

\* legacy operator== compares the buffer pointer and m_index only
legacy_equal(it, other) == it.m_index = other.m_index

\* legacy walk; operator* reads m_buffer[m_index] unchecked, so an index
\* outside the array is undefined behaviour
RECURSIVE legacy_walk(_, _, _)
legacy_walk(l, it, visited) ==
    IF legacy_equal(it, legacy_end(l)) THEN Result(l, "none", visited)
    ELSE IF it.m_index >= l.m_capacity
    THEN Result([l EXCEPT !.undefined = TRUE], "none", visited)
    ELSE Only({ legacy_walk(l, next, Append(visited, l.m_buffer[it.m_index])) :
                  next \in {legacy_increment(l, it)} })

legacy_iterate(l) == legacy_walk(l, legacy_begin(l), << >>)

\* ------------------------------------------------------------ the program
\* the buffer at the start of a call: the history flags are per call
Fresh(b, junk) == [b EXCEPT !.m_buffer.asserted = FALSE,
                            !.m_buffer.wild     = FALSE,
                            !.m_buffer.leaked   = FALSE,
                            !.m_buffer.divided  = FALSE,
                            !.m_buffer.junk     = junk]

\* the buffer when the call is over
Settled(b) == [b EXCEPT !.m_buffer.junk = Garbage]

\* the call ran into undefined behaviour: an assert of the arena fired (or
\* would have, in a build without asserts), a slot without a live element
\* was read, assigned or moved, or size() divided by zero.  Nothing is known
\* of the program afterwards.
Undefined(b) == b.m_buffer.asserted \/ b.m_buffer.wild \/ b.m_buffer.divided

Call(op, pos, value, policy, err, ret) ==
    [op |-> op, pos |-> pos, value |-> value, policy |-> policy, err |-> err, ret |-> ret]

\* what a read of memory without a live element may yield
Junk == {Garbage} \cup Values

NoPolicy == [m_capacity |-> "FixedCapacity", m_store |-> "ReplaceOnFull"]

\* no second buffer exists
NoOther == [live |-> FALSE, b |-> CircularBuffer(0, NoPolicy)]

\* no Iterator has been taken; `it` is a default-constructed Iterator
NoCursor == [live |-> FALSE, it |-> [m_index |-> npos, m_size |-> 0]]

Init ==
    /\ subject \in {"circbuf", "legacy"}
    /\ IF subject = "circbuf"
       THEN /\ \E cap \in 0 .. MaxCap, policy \in Policies : buf = CircularBuffer(cap, policy)
            /\ leg = LegacyBuffer(0)
            /\ pre = buf
       ELSE /\ \E cap \in 0 .. MaxCap : leg = LegacyBuffer(cap)
            /\ buf = CircularBuffer(0, NoPolicy)
            /\ pre = leg
    /\ second = NoOther
    /\ cursor = NoCursor
    /\ last = Call("construct", 0, Garbage, "none", "none", Garbage)
    /\ pushed = [only |-> TRUE, values |-> << >>]
    /\ alive = TRUE

\* the history after a call
History(call, r) ==
    IF pushed.only /\ call.op \in {"push_back", "push"} /\ r.err = "none" /\ Len(pushed.values) < MaxPush
    THEN [pushed EXCEPT !.values = Append(@, call.value)]
    ELSE [only |-> FALSE, values |-> << >>]

\* the common part of every call: r is the Result of the call on Fresh(buf)
Step(call, r) ==
    /\ alive
    /\ subject = "circbuf"
    /\ ~second.live
    /\ capacity(r.b) <= MaxGrown
    /\ buf' = Settled(r.b)
    /\ second' = NoOther
    /\ pre' = Fresh(buf, Garbage)
    /\ last' = [call EXCEPT !.err = r.err, !.ret = r.ret]
    /\ alive' = ~Undefined(r.b)
    /\ pushed' = History(call, r)
    /\ UNCHANGED <<subject, leg, cursor>>

\* the method a call names, applied to b with the call's arguments
Apply(call, b) ==
    CASE call.op = "push_back"  -> push_back(b, call.value)
      [] call.op = "push_front" -> push_front(b, call.value)
      [] call.op = "pop_front"  -> pop_front(b)
      [] call.op = "pop_back"   -> pop_back(b)
      [] call.op = "insert"     -> insert(b, call.pos, call.value, call.policy)
      [] call.op = "remove"     -> remove(b, call.pos)
      [] call.op = "clear"      -> Result(clear(b), "none", Garbage)
      [] call.op = "resize"     -> Result(resize(b, call.pos, call.policy), "none", Garbage)
      [] call.op = "linearize"  -> Result(linearize(b), "none", Garbage)
      [] call.op = "at"         -> CircularBuffer_at(b, call.pos)
      [] call.op = "data"       -> data(b)
      [] call.op = "iterate"    -> iterate(b)
      [] call.op = "deref"      -> Iterator_deref(b, cursor.it)

\* a call on buf: the junk of the call matters only when the call reads
\* memory without a live element
Run(call) ==
    \E b0 \in {Fresh(buf, Garbage)} : \E r0 \in {Apply(call, b0)} :
        IF ~r0.b.m_buffer.wild
        THEN Step(call, r0)
        ELSE \E b \in {Fresh(buf, junk) : junk \in Junk} :
                \E r \in {Apply(call, b)} : Step(call, r)

PushBack ==
    /\ alive
    /\ \E value \in Values : Run(Call("push_back", 0, value, "none", "none", Garbage))

PushFront ==
    /\ alive
    /\ \E value \in Values : Run(Call("push_front", 0, value, "none", "none", Garbage))

PopFront ==
    /\ alive
    /\ Run(Call("pop_front", 0, Garbage, "none", "none", Garbage))

PopBack ==
    /\ alive
    /\ Run(Call("pop_back", 0, Garbage, "none", "none", Garbage))

Insert ==
    /\ alive
    /\ \E value \in Values, pos \in 0 .. size(buf) + 1, policy \in {"DiscardHead", "DiscardTail"} :
            Run(Call("insert", pos, value, policy, "none", Garbage))

Remove ==
    /\ alive
    /\ \E pos \in 0 .. size(buf) : Run(Call("remove", pos, Garbage, "none", "none", Garbage))

Clear ==
    /\ alive
    /\ Run(Call("clear", 0, Garbage, "none", "none", Garbage))

\* the new capacity is kept in the call's pos
Resize ==
    /\ alive
    /\ \E newCapacity \in 0 .. MaxCap, policy \in {"DiscardOld", "DiscardNew"} :
            Run(Call("resize", newCapacity, Garbage, policy, "none", Garbage))

Linearize ==
    /\ alive
    /\ Run(Call("linearize", 0, Garbage, "none", "none", Garbage))

At ==
    /\ alive
    /\ \E pos \in 0 .. size(buf) : Run(Call("at", pos, Garbage, "none", "none", Garbage))

Data ==
    /\ alive
    /\ Run(Call("data", 0, Garbage, "none", "none", Garbage))

Iterate ==
    /\ alive
    /\ Run(Call("iterate", 0, Garbage, "none", "none", Garbage))

\* auto it = buf.begin() + n;  with n = 0 it is begin() itself
Begin ==
    /\ alive
    /\ subject = "circbuf"
    /\ ~second.live
    /\ ~cursor.live
    /\ \E n \in 0 .. size(buf) + 1 : \E s \in {sized(Fresh(buf, Garbage))} :
         /\ cursor' = [live |-> TRUE,
                       it   |-> IF n = 0 THEN CircularBuffer_begin(s)
                                ELSE Iterator_advance(CircularBuffer_begin(s), n)]
         /\ buf' = Settled(s)
         /\ last' = Call("begin", n, Garbage, "none", "none", Garbage)
         /\ alive' = ~Undefined(s)
    /\ pre' = Fresh(buf, Garbage)
    /\ pushed' = [only |-> FALSE, values |-> << >>]
    /\ second' = NoOther
    /\ UNCHANGED <<subject, leg>>

\* *it;  for the Iterator taken earlier
Deref ==
    /\ alive
    /\ cursor.live
    /\ Run(Call("deref", 0, Garbage, "none", "none", Garbage))

\* the common part of every statement that involves the second buffer: b is
\* the buffer under test afterwards, o the second buffer afterwards
Both(call, b, o) ==
    /\ alive
    /\ subject = "circbuf"
    /\ buf' = Settled(b)
    /\ second' = [o EXCEPT !.b = Settled(@)]
    /\ pre' = Fresh(buf, Garbage)
    /\ last' = call
    /\ alive' = (~Undefined(b) /\ ~Undefined(o.b))
    /\ pushed' = History(call, Result(b, "none", Garbage))
    /\ UNCHANGED <<subject, leg, cursor>>

\* what the copy's reads of dead slots may yield: any value when the copy
\* reads one, nothing to choose otherwise
Read(b) ==
    IF CircularBuffer_copy(Fresh(b, Garbage)).m_buffer.wild THEN Junk ELSE {Garbage}

\* CircularBuffer other{ buf };
Copy ==
    /\ alive
    /\ subject = "circbuf"
    /\ ~second.live
    /\ \E src \in {Fresh(buf, junk) : junk \in Read(buf)} :
         \E c \in {CircularBuffer_copy(src)} :
            Both(Call("copy", 0, Garbage, "none", "none", Garbage),
                 src, [live |-> TRUE, b |-> c])

\* auto other = buf.linearizeCopy(policy);
LinearizeCopy ==
    /\ alive
    /\ subject = "circbuf"
    /\ ~second.live
    /\ \E src \in {Fresh(buf, junk) : junk \in Read(buf)}, policy \in {{}} \cup {{p} : p \in Policies} :
         \E c \in {linearizeCopy(src, policy)} :
            Both(Call("linearizeCopy", 0, Garbage, policy, "none", Garbage),
                 src, [live |-> TRUE, b |-> c])

\* CircularBuffer other{ std::move(buf) };
MoveConstruct ==
    /\ alive
    /\ subject = "circbuf"
    /\ ~second.live
    /\ \E r \in {CircularBuffer_move(Fresh(buf, Garbage))} :
            Both(Call("move", 0, Garbage, "none", "none", Garbage),
                 r.from, [live |-> TRUE, b |-> r.to])

\* other = std::move(buf);
MoveAssign ==
    /\ alive
    /\ subject = "circbuf"
    /\ second.live
    /\ \E r \in {moveAssign(Fresh(second.b, Garbage), Fresh(buf, Garbage))} :
            Both(Call("moveAssign", 0, Garbage, "none", "none", Garbage),
                 r.from, [live |-> TRUE, b |-> r.to])

\* the second buffer goes out of scope; what is left of it is kept until the
\* next call
Destroy ==
    /\ alive
    /\ subject = "circbuf"
    /\ second.live
    /\ \E d \in {destructor(Fresh(second.b, Garbage))} :
            Both(Call("destroy", 0, Garbage, "none", "none", Garbage),
                 Fresh(buf, Garbage), [live |-> FALSE, b |-> d])

\* the common part of every call on the legacy buffer
LegacyStep(call, r) ==
    /\ alive
    /\ subject = "legacy"
    /\ leg' = r.b
    /\ second' = NoOther
    /\ pre' = leg
    /\ last' = [call EXCEPT !.err = r.err, !.ret = r.ret]
    /\ alive' = ~r.b.undefined
    /\ pushed' = History(call, r)
    /\ UNCHANGED <<subject, buf, cursor>>

LegacyPush ==
    /\ alive
    /\ \E event \in Values :
            LegacyStep(Call("push", 0, event, "none", "none", Garbage), legacy_push(leg, event))

LegacyPop ==
    /\ alive
    /\ \E left \in {Garbage} \cup (IF leg.m_begin \in 0 .. leg.m_capacity - 1
                                   THEN {leg.m_buffer[leg.m_begin]} ELSE {}) :
            LegacyStep(Call("pop", 0, Garbage, "none", "none", Garbage), legacy_pop(leg, left))

LegacyReset ==
    /\ alive
    /\ LegacyStep(Call("reset", 0, Garbage, "none", "none", Garbage),
                  Result(legacy_reset(leg), "none", Garbage))

LegacyLinearize ==
    /\ alive
    /\ LegacyStep(Call("linearize", 0, Garbage, "none", "none", Garbage),
                  Result(legacy_linearize(leg), "none", Garbage))

\* auto second = leg.linearizeCopy(); the copy lives until the next call
LegacyLinearizeCopy ==
    /\ alive
    /\ subject = "legacy"
    /\ \E c \in {legacy_linearizeCopy(leg)} :
        /\ second' = [live |-> TRUE, b |-> c]
        /\ pre' = leg
        /\ last' = Call("linearizeCopy", 0, Garbage, "none", "none", Garbage)
        /\ alive' = ~c.undefined
        /\ pushed' = [only |-> FALSE, values |-> << >>]
    /\ UNCHANGED <<subject, buf, leg, cursor>>

LegacyIterate ==
    /\ alive
    /\ LegacyStep(Call("iterate", 0, Garbage, "none", "none", Garbage), legacy_iterate(leg))

\* the new capacity is kept in the call's pos
LegacyResize ==
    /\ alive
    /\ \E newCapacity \in 0 .. MaxCap, policy \in {"DISCARD_OLD", "DISCARD_NEW"} :
            LegacyStep(Call("resize", newCapacity, Garbage, policy, "none", Garbage),
                       Result(legacy_resize(leg, newCapacity, policy), "none", Garbage))

LegacyClear ==
    /\ alive
    /\ LegacyStep(Call("clear", 0, Garbage, "none", "none", Garbage),
                  Result(legacy_clear(leg), "none", Garbage))

Next ==
    \/ PushBack
    \/ PushFront
    \/ PopFront
    \/ PopBack
    \/ Insert
    \/ Remove
    \/ Clear
    \/ Resize
    \/ Linearize
    \/ At
    \/ Data
    \/ Iterate
    \/ Copy
    \/ LinearizeCopy
    \/ MoveConstruct
    \/ MoveAssign
    \/ Destroy
    \/ LegacyPush
    \/ LegacyPop
    \/ LegacyReset
    \/ LegacyClear
    \/ LegacyResize
    \/ LegacyLinearize
    \/ LegacyLinearizeCopy
    \/ LegacyIterate

Spec == Init /\ [][Next]_vars

\* runs of the four end operations alone, from construction
DequeNext ==
    \/ PushBack
    \/ PushFront
    \/ PopFront
    \/ PopBack

DequeSpec == Init /\ [][DequeNext]_vars

\* runs in which an Iterator is taken and dereferenced while elements are
\* pushed, popped and removed
CursorNext ==
    \/ PushBack
    \/ PushFront
    \/ PopFront
    \/ PopBack
    \/ Remove
    \/ Begin
    \/ Deref

CursorSpec == Init /\ [][CursorNext]_vars

\* ------------------------------------------------------------- the claims
\* the physical slots of the logical positions 0 .. size() - 1
Occupied(b) == {realpos(b, i) : i \in 0 .. size(b) - 1}

\* C1: in every state reached by public operations the live slots of the
\* arena are exactly the slots (head + i) mod capacity for 0 <= i < size(),
\* so exactly size() slots are live.
C1_LiveSlotsAreOccupied ==
    alive => /\ LiveSlots(buf) = Occupied(buf)
             /\ Cardinality(LiveSlots(buf)) = size(buf)

IsFixed(b) == b.m_policy.m_capacity = "FixedCapacity"
IsDynamic(b) == b.m_policy.m_capacity = "DynamicCapacity"
Replaces(b) == b.m_policy.m_store = "ReplaceOnFull"
Throws(b) == b.m_policy.m_store = "ThrowOnFull"

\* the last call was one of ops, on the circbuf buffer / on the legacy buffer
Called(ops) == subject = "circbuf" /\ last.op \in ops
LegacyCalled(ops) == subject = "legacy" /\ last.op \in ops

\* the last call returned normally and ran into no undefined behaviour
Returned == alive /\ last.err = "none"

\* the last call failed with err and changed nothing
Failed(err) == alive /\ last.err = err /\ buf = pre

LastOf(s, n) == SubSeq(s, Len(s) - n + 1, Len(s))
Front(s) == SubSeq(s, 1, Len(s) - 1)
InsertAt(s, pos, v) == SubSeq(s, 1, pos) \o <<v>> \o SubSeq(s, pos + 1, Len(s))

\* C2: on a Fixed/ReplaceOldest buffer of capacity C >= 1 that starts empty,
\* after n > C values were pushed at the back the size is C, the logical
\* sequence is the last C values pushed, in push order, and the k-th pushed
\* value still held sits at physical slot (k - 1) mod C; the same holds of
\* push on the legacy buffer.
C2_PushBackKeepsLastPushed ==
    LET n == Len(pushed.values)
    IN  /\ (/\ subject = "circbuf" /\ pushed.only
             /\ IsFixed(buf) /\ Replaces(buf)
             /\ capacity(buf) >= 1 /\ n > capacity(buf))
            => LET C == capacity(buf)
               IN  /\ alive
                   /\ size(buf) = C
                   /\ Logical(buf) = LastOf(pushed.values, C)
                   /\ \A k \in n - C + 1 .. n :
                          /\ isLive(buf.m_buffer, (k - 1) % C)
                          /\ buf.m_buffer.m_data[(k - 1) % C] = pushed.values[k]
        /\ (/\ subject = "legacy" /\ pushed.only
             /\ leg.m_capacity >= 1 /\ n > leg.m_capacity)
            => LET C == leg.m_capacity
               IN  /\ alive
                   /\ legacy_size(leg) = C
                   /\ LegacyLogical(leg) = LastOf(pushed.values, C)
                   /\ \A k \in n - C + 1 .. n : leg.m_buffer[(k - 1) % C] = pushed.values[k]

\* a run of pushes that wrapped around a buffer of the largest capacity, with
\* two different values among those still held
C2_Witness ==
    /\ alive /\ pushed.only
    /\ Len(pushed.values) = MaxPush
    /\ pushed.values[MaxPush] # pushed.values[MaxPush - 1]
    /\ subject = "circbuf"
    /\ IsFixed(buf) /\ Replaces(buf)
    /\ capacity(buf) = MaxCap

\* C3: on a full Fixed/RejectOnFull buffer (capacity >= 1) push_back and
\* push_front fail with BufferFull and leave head, tail, size, capacity and
\* every stored element unchanged.
C3_PushOnFullRejects ==
    (/\ Called({"push_back", "push_front"})
     /\ IsFixed(pre) /\ Throws(pre)
     /\ capacity(pre) >= 1 /\ full(pre))
    => Failed("BufferFull")

C3_Witness ==
    /\ Called({"push_front"})
    /\ IsFixed(pre) /\ Throws(pre)
    /\ capacity(pre) = MaxCap /\ full(pre)
    /\ pre.m_head # 0
    /\ LiveSlots(pre) = 0 .. MaxCap - 1
    /\ last.err = "BufferFull"

\* C4: in Dynamic capacity mode a push on a full buffer never fails: the
\* capacity doubles (0 grows to 1) before the insertion, every element held
\* keeps its logical place and the new element is added at the pushed end;
\* so after n push_back calls from empty the size is n, the capacity is at
\* least n and the logical sequence is the pushed values in order.
C4_DynamicPushGrows ==
    /\ (Called({"push_back", "push_front"}) /\ IsDynamic(pre) /\ full(pre))
        => /\ Returned
           /\ capacity(buf) = IF capacity(pre) = 0 THEN 1 ELSE 2 * capacity(pre)
           /\ Logical(buf) = IF last.op = "push_back"
                             THEN Append(Logical(pre), last.value)
                             ELSE <<last.value>> \o Logical(pre)
    /\ (subject = "circbuf" /\ pushed.only /\ IsDynamic(buf))
        => /\ alive
           /\ size(buf) = Len(pushed.values)
           /\ capacity(buf) >= Len(pushed.values)
           /\ Logical(buf) = pushed.values

\* C5: a buffer constructed with capacity 0 is empty; in Fixed mode every
\* push_back, push_front and insert on it fails with ZeroCapacity and leaves
\* it unchanged; in Dynamic mode the first insertion grows the capacity to 1
\* and stores the element, so that the size becomes 1.
C5_ZeroCapacity ==
    /\ (Called({"construct"}) /\ capacity(buf) = 0) => size(buf) = 0 /\ empty(buf)
    /\ (Called({"push_back", "push_front", "insert"}) /\ capacity(pre) = 0 /\ IsFixed(pre))
        => Failed("ZeroCapacity")
    /\ (Called({"push_back", "push_front", "insert"}) /\ capacity(pre) = 0 /\ IsDynamic(pre))
        => /\ Returned
           /\ capacity(buf) = 1
           /\ size(buf) = 1
           /\ Logical(buf) = <<last.value>>

\* C6: on a non-empty buffer holding [e0..e(n-1)], pop_front returns e0 and
\* leaves [e1..e(n-1)], pop_back returns e(n-1) and leaves [e0..e(n-2)]; in
\* both cases the size decreases by exactly 1, the vacated slot is destroyed
\* (one live slot fewer, none leaked) and a set full-sentinel is cleared.
C6_PopTakesTheEnd ==
    (Called({"pop_front", "pop_back"}) /\ size(pre) > 0)
    => /\ Returned
       /\ last.ret = IF last.op = "pop_front"
                     THEN Logical(pre)[1] ELSE Logical(pre)[size(pre)]
       /\ Logical(buf) = IF last.op = "pop_front"
                         THEN Tail(Logical(pre)) ELSE Front(Logical(pre))
       /\ size(buf) = size(pre) - 1
       /\ Cardinality(LiveSlots(buf)) = Cardinality(LiveSlots(pre)) - 1
       /\ ~buf.m_buffer.leaked
       /\ buf.m_tail # npos

\* C7: pop_front and pop_back on an empty buffer (size == 0) yield no value:
\* they fail with BufferEmpty (the legacy pop() returns an empty optional)
\* and leave head, tail, capacity and storage unchanged.
C7_PopOnEmptyFails ==
    /\ (Called({"pop_front", "pop_back"}) /\ size(pre) = 0) => Failed("BufferEmpty")
    /\ (LegacyCalled({"pop"}) /\ legacy_size(pre) = 0)
        => alive /\ last.err = "nullopt" /\ leg = pre

\* C8: on a full Fixed/ReplaceOldest buffer holding [e0..e(C-1)], push_front(v)
\* assigns over an existing slot instead of constructing: the result is
\* [v, e0..e(C-2)], the size stays equal to the capacity and the buffer stays
\* full; symmetrically push_back(v) yields [e1..e(C-1), v].
C8_PushOnFullReplaces ==
    (/\ Called({"push_back", "push_front"})
     /\ IsFixed(pre) /\ Replaces(pre)
     /\ capacity(pre) >= 1 /\ full(pre))
    => /\ Returned
       /\ Logical(buf) = IF last.op = "push_front"
                         THEN <<last.value>> \o Front(Logical(pre))
                         ELSE Append(Tail(Logical(pre)), last.value)
       /\ capacity(buf) = capacity(pre)
       /\ size(buf) = capacity(buf)
       /\ full(buf)
       /\ LiveSlots(buf) = LiveSlots(pre)

\* C9: insert(pos, v, tie_break) on a non-full buffer holding [e0..e(n-1)]
\* with 0 <= pos <= n yields [e0..e(pos-1), v, e(pos)..e(n-1)]: the size
\* increases by exactly 1, v is at logical index pos and the other elements
\* keep their relative order, whatever the head position.
C9_InsertOnNonFull ==
    (Called({"insert"}) /\ ~full(pre) /\ last.pos <= size(pre))
    => /\ Returned
       /\ Logical(buf) = InsertAt(Logical(pre), last.pos, last.value)
       /\ size(buf) = size(pre) + 1

\* C10: insert(pos, v, tie_break) on a full Fixed/ReplaceOldest buffer holding
\* [e0..e(C-1)] first evicts exactly one element chosen by tie_break
\* (DiscardHead removes e0, DiscardTail removes e(C-1)) and then inserts v at
\* logical index pos <= C-1 of the remaining C-1 elements; afterwards
\* size == capacity == C and the survivors keep their relative order.
C10_InsertOnFullEvicts ==
    (/\ Called({"insert"})
     /\ IsFixed(pre) /\ Replaces(pre)
     /\ capacity(pre) >= 1 /\ full(pre)
     /\ last.pos <= capacity(pre) - 1)
    => /\ Returned
       /\ Logical(buf) = InsertAt(IF last.policy = "DiscardHead"
                                  THEN Tail(Logical(pre)) ELSE Front(Logical(pre)),
                                  last.pos, last.value)
       /\ capacity(buf) = capacity(pre)
       /\ size(buf) = capacity(buf)

RemoveAt(s, pos) == SubSeq(s, 1, pos) \o SubSeq(s, pos + 2, Len(s))

\* C11: remove(pos) with pos < size on a buffer holding [e0..e(n-1)] returns
\* e(pos) and leaves [e0..e(pos-1), e(pos+1)..e(n-1)]: the size decreases by
\* exactly 1, the elements after pos shift one position toward the head and
\* only the vacated last slot is destroyed.
C11_RemoveTakesPos ==
    (Called({"remove"}) /\ last.pos < size(pre))
    => /\ Returned
       /\ last.ret = Logical(pre)[last.pos + 1]
       /\ Logical(buf) = RemoveAt(Logical(pre), last.pos)
       /\ size(buf) = size(pre) - 1
       /\ ~buf.m_buffer.leaked
       /\ IF capacity(buf) = capacity(pre)
          THEN LiveSlots(buf) = LiveSlots(pre) \ {realpos(pre, size(pre) - 1)}
          ELSE Cardinality(LiveSlots(buf)) = Cardinality(LiveSlots(pre)) - 1

\* C12: every failing call leaves the buffer in its pre-call state: an insert
\* that fails with BufferFull or ZeroCapacity, a remove(pos) or at(pos) that
\* fails with OutOfRange and a data() that fails with NotLinearizedNotFull
\* change neither head, tail, capacity, policy nor any slot.
C12_FailedCallChangesNothing ==
    (Called({"insert", "remove", "at", "data"}) /\ last.err # "none")
    => /\ Failed(last.err)
       /\ last.op = "insert" => last.err \in {"BufferFull", "ZeroCapacity"}
       /\ last.op \in {"remove", "at"} => last.err = "OutOfRange" /\ last.pos >= size(pre)
       /\ last.op = "data" => last.err = "NotLinearizedNotFull" /\ pre.m_head # 0 /\ ~full(pre)

\* the logical sequence a pop_front, pop_back or remove(pos) is to leave
Taken(s, call) ==
    CASE call.op = "pop_front" -> Tail(s)
      [] call.op = "pop_back"  -> Front(s)
      [] call.op = "remove"    -> RemoveAt(s, call.pos)

\* C13: in Dynamic mode a pop_front, pop_back or remove that leaves
\* size == capacity / 4 (integer division) halves the capacity, to
\* capacity / 2; the shrink discards no element and the logical sequence is
\* the one the removal alone would leave.
C13_DynamicPopShrinks ==
    (/\ Called({"pop_front", "pop_back", "remove"})
     /\ IsDynamic(pre)
     /\ last.err = "none"
     /\ size(pre) - 1 = capacity(pre) \div 4)
    => /\ alive
       /\ capacity(buf) = capacity(pre) \div 2
       /\ size(buf) = size(pre) - 1
       /\ Logical(buf) = Taken(Logical(pre), last)

\* C14: resize(0) destroys all elements and releases the storage: afterwards
\* capacity() == 0, size() == 0 and empty() holds, and the buffer is the one
\* a construction with capacity 0 and the same policy gives.
C14_ResizeToZero ==
    (Called({"resize"}) /\ last.pos = 0)
    => /\ Returned
       /\ capacity(buf) = 0
       /\ size(buf) = 0
       /\ empty(buf)
       /\ buf = CircularBuffer(0, pre.m_policy)

\* the arena of b holds exactly the elements of s, element i in physical
\* slot i, and no other slot is live
LaidOut(b, s) ==
    /\ LiveSlots(b) = 0 .. Len(s) - 1
    /\ \A i \in 1 .. Len(s) : b.m_buffer.m_data[i - 1] = s[i]

\* C15: resize to a larger capacity preserves the logical sequence, for a
\* full and for a non-full buffer and for any head position: afterwards the
\* capacity is the new one, head == 0, tail == the old size and element i is
\* in physical slot i.
C15_ResizeGrowKeepsAll ==
    (Called({"resize"}) /\ last.pos > capacity(pre))
    => /\ Returned
       /\ capacity(buf) = last.pos
       /\ buf.m_head = 0
       /\ buf.m_tail = size(pre)
       /\ Logical(buf) = Logical(pre)
       /\ LaidOut(buf, Logical(pre))

\* the N elements of s a shrinking resize keeps: the last N when the oldest
\* are discarded, the first N when the newest are
Kept(s, N, policy) ==
    IF policy \in {"DiscardOld", "DISCARD_OLD"} THEN LastOf(s, N) ELSE SubSeq(s, 1, N)

\* C16: resize to a smaller capacity N < size keeps exactly N elements, chosen
\* by the tie-break: DiscardOld keeps the last N, DiscardNew the first N; the
\* survivors keep their order and are laid out from slot 0, head == 0 and the
\* result is full.  The legacy buffer's resize does the same.
C16_ResizeShrinkDiscards ==
    /\ (Called({"resize"}) /\ 1 <= last.pos /\ last.pos < size(pre))
        => /\ Returned
           /\ capacity(buf) = last.pos
           /\ size(buf) = last.pos
           /\ full(buf)
           /\ buf.m_head = 0
           /\ Logical(buf) = Kept(Logical(pre), last.pos, last.policy)
           /\ LaidOut(buf, Kept(Logical(pre), last.pos, last.policy))
    /\ (LegacyCalled({"resize"}) /\ last.pos < legacy_size(pre))
        => /\ alive
           /\ leg.m_capacity = last.pos
           /\ legacy_size(leg) = last.pos
           /\ leg.m_begin = 0
           /\ LegacyLogical(leg) = Kept(LegacyLogical(pre), last.pos, last.policy)

\* C17: resize to a smaller capacity N with size <= N (size == N included)
\* drops nothing: the size and the logical sequence stay the same, the
\* capacity becomes N, head == 0 and element i is in physical slot i.  The
\* legacy buffer's resize does the same.
C17_ResizeShrinkKeepsAll ==
    /\ (Called({"resize"}) /\ 1 <= last.pos /\ last.pos < capacity(pre)
                           /\ size(pre) <= last.pos)
        => /\ Returned
           /\ capacity(buf) = last.pos
           /\ size(buf) = size(pre)
           /\ buf.m_head = 0
           /\ Logical(buf) = Logical(pre)
           /\ LaidOut(buf, Logical(pre))
    /\ (LegacyCalled({"resize"}) /\ last.pos < pre.m_capacity
                                 /\ legacy_size(pre) <= last.pos)
        => /\ alive
           /\ leg.m_capacity = last.pos
           /\ legacy_size(leg) = legacy_size(pre)
           /\ leg.m_begin = 0
           /\ LegacyLogical(leg) = LegacyLogical(pre)

\* C18: linearize leaves the size, the capacity and the logical sequence
\* unchanged and makes head == 0, tail == size (the full-sentinel on a full
\* buffer) and element i sit in physical slot i, for full and for partially
\* filled buffers, wrapped or not.
C18_LinearizeKeepsSequence ==
    Called({"linearize"})
    => /\ Returned
       /\ size(buf) = size(pre)
       /\ capacity(buf) = capacity(pre)
       /\ Logical(buf) = Logical(pre)
       /\ buf.m_head = 0
       /\ buf.m_tail = IF full(pre) THEN npos ELSE size(pre)
       /\ \A i \in 1 .. size(pre) : buf.m_buffer.m_data[i - 1] = Logical(pre)[i]

\* C19: linearize is idempotent: on an already linearized buffer it changes
\* neither head, tail, any slot nor the liveness of any slot, a linearize
\* that returns leaves the buffer linearized, and in every reachable state x
\* linearize(linearize(x)) = linearize(x), whatever a read of a slot without
\* an element yields.
C19_LinearizeIdempotent ==
    /\ (Called({"linearize"}) /\ linearized(pre)) => Returned /\ buf = pre
    /\ (Called({"linearize"}) /\ alive) => linearized(buf)
    /\ subject = "circbuf"
        => \A junk \in Junk :
             LET x == Fresh(buf, junk)
             IN  linearize(linearize(x)) = linearize(x)

\* a linearize has rotated a full wrapped buffer of two different elements,
\* and a second linearize would leave its result as it is
C19_Witness ==
    /\ Called({"linearize"})
    /\ alive
    /\ pre.m_head # 0
    /\ full(pre)
    /\ \E i, j \in 1 .. size(pre) : Logical(pre)[i] # Logical(pre)[j]
    /\ Logical(buf) = Logical(pre)
    /\ linearize(buf) = buf

\* C20: after linearize on a partially filled buffer with head != 0 the live
\* slots are exactly the physical slots 0 .. size - 1, so that a following
\* push_back constructs into a slot that is not live and a following
\* pop_front, pop_back or clear destroys only live slots.
C20_LinearizeMovesLiveness ==
    (Called({"linearize"}) /\ pre.m_head # 0 /\ ~full(pre))
    => /\ Returned
       /\ LiveSlots(buf) = 0 .. size(buf) - 1
       /\ \A value \in Values : ~push_back(buf, value).b.m_buffer.asserted
       /\ ~pop_front(buf).b.m_buffer.asserted
       /\ ~pop_back(buf).b.m_buffer.asserted
       /\ ~clear(buf).m_buffer.asserted

\* C21: copy-constructing a buffer from any reachable source state yields a
\* buffer with the same capacity and the same logical sequence (same size,
\* same values in the same order) as the source, and leaves the source
\* unchanged, also when the source is partially filled with head != 0.
C21_CopyKeepsSequence ==
    Called({"copy"})
    => /\ alive
       /\ second.live
       /\ capacity(second.b) = capacity(pre)
       /\ size(second.b) = size(pre)
       /\ Logical(second.b) = Logical(pre)
       /\ buf = pre

\* C22: a buffer produced by the copy constructor is linearized: head == 0
\* and logical element i is in physical slot i, whatever the head position
\* of the source.
C22_CopyIsLinearized ==
    Called({"copy"})
    => /\ alive
       /\ second.live
       /\ second.b.m_head = 0
       /\ LaidOut(second.b, Logical(pre))

\* the policy a linearizeCopy(policy) is to give its result
Chosen(policy, b) == IF policy = {} THEN b.m_policy ELSE Only(policy)

\* C23: linearizeCopy() returns a buffer of equal capacity whose logical
\* sequence equals the source's logical sequence (with the policy asked for,
\* the source's when none is) and leaves the source's head, tail, slots and
\* policy untouched.
C23_LinearizeCopyKeepsSequence ==
    Called({"linearizeCopy"})
    => /\ alive
       /\ second.live
       /\ capacity(second.b) = capacity(pre)
       /\ Logical(second.b) = Logical(pre)
       /\ second.b.m_policy = Chosen(last.policy, pre)
       /\ buf = pre

\* C24: the physical layout of the buffer returned by linearizeCopy() is the
\* layout the source has after an in-place linearize(): logical element i in
\* physical slot i with head == 0, for full and non-full sources with any
\* head position.  The legacy buffer's linearizeCopy() does the same.
C24_LinearizeCopyLayout ==
    /\ Called({"linearizeCopy"})
        => /\ alive
           /\ second.b.m_head = 0
           /\ LaidOut(second.b, Logical(pre))
           /\ LET inPlace == linearize(pre)
              IN  /\ second.b.m_buffer.m_data = inPlace.m_buffer.m_data
                  /\ second.b.m_head = inPlace.m_head
                  /\ second.b.m_tail = inPlace.m_tail
    /\ LegacyCalled({"linearizeCopy"})
        => /\ alive
           /\ second.b.m_begin = 0
           /\ \A i \in 1 .. legacy_size(pre) : second.b.m_buffer[i - 1] = LegacyLogical(pre)[i]
           /\ LET inPlace == legacy_linearize(pre)
              IN  /\ second.b.m_buffer = inPlace.m_buffer
                  /\ second.b.m_begin = inPlace.m_begin
                  /\ second.b.m_end = inPlace.m_end

\* C25: after a move (move construction or move assignment) the source has
\* capacity == 0 and size == 0 and every subsequent push_back, push_front,
\* insert, pop_front, pop_back and remove on it fails (ZeroCapacity,
\* BufferEmpty, OutOfRange) and leaves it as it is, while the destination
\* holds the source's former logical sequence, capacity and policy.
C25_MoveEmptiesSource ==
    Called({"move", "moveAssign"})
    => /\ alive
       /\ capacity(buf) = 0
       /\ size(buf) = 0
       /\ ~divByZero(buf)
       /\ \A value \in Values :
            /\ push_back(buf, value) = Result(buf, "ZeroCapacity", Garbage)
            /\ push_front(buf, value) = Result(buf, "ZeroCapacity", Garbage)
            /\ \A pos \in 0 .. 1, policy \in {"DiscardHead", "DiscardTail"} :
                    insert(buf, pos, value, policy) = Result(buf, "ZeroCapacity", Garbage)
       /\ pop_front(buf) = Result(buf, "BufferEmpty", Garbage)
       /\ pop_back(buf) = Result(buf, "BufferEmpty", Garbage)
       /\ \A pos \in 0 .. 1 : remove(buf, pos) = Result(buf, "OutOfRange", Garbage)
       /\ second.live
       /\ capacity(second.b) = capacity(pre)
       /\ Logical(second.b) = Logical(pre)
       /\ LiveSlots(second.b) = LiveSlots(pre)
       /\ second.b.m_policy = pre.m_policy

\* C26: during any resize (grow or shrink) every element is moved out of a
\* slot that is live at that moment and exactly the slots moved from are
\* destroyed, once each, after the move; no slot that is not live is ever
\* destroyed and no live slot is constructed over, so the arena's liveness
\* assertions never fire (and a growing resize, which moves every element,
\* drops its old arena with no slot live).
C26_ResizeRespectsLiveness ==
    Called({"resize"})
    => /\ ~buf.m_buffer.asserted
       /\ ~buf.m_buffer.wild
       /\ last.pos > capacity(pre) => ~buf.m_buffer.leaked

\* C27: whenever an arena's storage is released (resize to a different
\* capacity, dynamic grow or shrink, destruction of a buffer, move assignment
\* over a non-empty buffer) none of its slots is live: in particular the
\* elements discarded by a shrinking resize are destroyed before the old
\* arena is dropped.
C27_NoLiveSlotReleased ==
    subject = "circbuf"
    => /\ ~buf.m_buffer.leaked
       /\ ~second.b.m_buffer.leaked

\* C28: in every reachable state 0 <= size() <= capacity(), size() being
\* computable (no division by a capacity of zero), and whenever capacity > 0
\* the head cursor satisfies 0 <= head < capacity.
C28_SizeAndHeadInRange ==
    (subject = "circbuf" /\ alive)
    => /\ ~divByZero(buf)
       /\ 0 <= size(buf)
       /\ size(buf) <= capacity(buf)
       /\ capacity(buf) > 0 => (0 <= buf.m_head /\ buf.m_head < capacity(buf))

\* C29: data() fails with NotLinearizedNotFull exactly when the buffer is
\* neither linearized (head != 0) nor full; otherwise it returns a view of
\* size() physical slots starting at slot 0, every one of which is live, and
\* when head == 0 that view equals the logical sequence.  Either way the
\* buffer is left as it is.
C29_DataView ==
    Called({"data"})
    => /\ alive
       /\ buf = pre
       /\ (last.err = "NotLinearizedNotFull") = (pre.m_head # 0 /\ ~full(pre))
       /\ last.err \in {"none", "NotLinearizedNotFull"}
       /\ last.err = "none"
            => /\ Len(last.ret) = size(pre)
               /\ \A i \in 0 .. size(pre) - 1 :
                    isLive(pre.m_buffer, i) /\ last.ret[i + 1] = pre.m_buffer.m_data[i]
               /\ pre.m_head = 0 => last.ret = Logical(pre)

\* C30: iterating from begin() and stepping forward until end() is reached
\* visits exactly size() elements in logical order (from the head slot,
\* wrapping around the physical end), for full and non-full buffers with
\* any head position, without throwing and without undefined behaviour.
C30_IterationVisitsAll ==
    /\ Called({"iterate"})
         => /\ alive
            /\ last.err = "none"
            /\ Len(last.ret) = size(pre)
            /\ last.ret = Logical(pre)
    /\ LegacyCalled({"iterate"})
         => /\ alive
            /\ Len(last.ret) = legacy_size(pre)
            /\ last.ret = LegacyLogical(pre)

\* C32: the buffer returned by linearizeCopy(policy) carries the supplied
\* policy when one is given and the source's policy when it is omitted, a
\* copy-constructed buffer carries the source's policy, and neither
\* operation changes the source's own policy.
C32_CopyCarriesPolicy ==
    /\ Called({"linearizeCopy"})
         => /\ second.live
            /\ second.b.m_policy = Chosen(last.policy, pre)
            /\ buf.m_policy = pre.m_policy
    /\ Called({"copy"})
         => /\ second.live
            /\ second.b.m_policy = pre.m_policy
            /\ buf.m_policy = pre.m_policy

\* a linearizeCopy with a policy that differs from the source's in both
\* parts has returned
C32_Witness ==
    /\ Called({"linearizeCopy"})
    /\ alive
    /\ last.policy # {}
    /\ second.b.m_policy.m_capacity # pre.m_policy.m_capacity
    /\ second.b.m_policy.m_store # pre.m_policy.m_store
    /\ size(pre) > 0

\* C33: in the legacy buffer reset() sets begin and end to 0, so that size()
\* is 0 (and defined), and leaves the capacity and every physical slot as
\* they were; a push into a buffer whose begin is 0 and whose end is 0 or a
\* later slot, as after a reset and the pushes that follow it, writes the
\* slot at end and no other.
C33_LegacyReset ==
    /\ LegacyCalled({"reset"})
         => /\ alive
            /\ leg.m_begin = 0
            /\ leg.m_end = 0
            /\ ~legacy_divByZero(leg)
            /\ legacy_size(leg) = 0
            /\ leg.m_capacity = pre.m_capacity
            /\ leg.m_buffer = pre.m_buffer
    /\ (LegacyCalled({"push"}) /\ pre.m_begin = 0
            /\ (pre.m_end = 0 \/ pre.m_end < pre.m_capacity))
         => /\ alive
            /\ leg.m_buffer = [pre.m_buffer EXCEPT ![pre.m_end] = last.value]
            /\ leg.m_begin = 0
            /\ leg.m_end = IF pre.m_end + 1 = pre.m_capacity THEN npos ELSE pre.m_end + 1

\* the logical sequence as a caller reads it, at(0) .. at(size() - 1)
ReadThroughAt(b) == [i \in 1 .. size(b) |-> CircularBuffer_at(b, i - 1).ret]

\* every one of these reads returns an element
Readable(b) ==
    \A i \in 0 .. size(b) - 1 :
        CircularBuffer_at(b, i).err = "none" /\ ~CircularBuffer_at(b, i).b.m_buffer.wild

\* one step of an abstract deque d of bound C: a push on a full deque drops
\* the element at the opposite end under ReplaceOnFull, is rejected otherwise
DequeStep(d, call, C, store) ==
    CASE call.op = "push_back" ->
            IF Len(d) < C THEN Append(d, call.value)
            ELSE IF store = "ReplaceOnFull" THEN Append(Tail(d), call.value) ELSE d
      [] call.op = "push_front" ->
            IF Len(d) < C THEN <<call.value>> \o d
            ELSE IF store = "ReplaceOnFull" THEN <<call.value>> \o Front(d) ELSE d
      [] call.op = "pop_front" -> IF d = << >> THEN d ELSE Tail(d)
      [] call.op = "pop_back"  -> IF d = << >> THEN d ELSE Front(d)

\* C34: for a Fixed-capacity buffer of capacity C >= 1, under either store
\* policy, any interleaving of push_back, push_front, pop_front and pop_back
\* keeps the sequence read through at(0 .. size-1) equal to that of an
\* abstract deque of bound C stepped with the same operations: the buffer
\* starts empty, and every call takes the sequence before it to the deque's
\* next sequence, without undefined behaviour and at the same capacity.
C34_FixedIsBoundedDeque ==
    (subject = "circbuf" /\ pre.m_policy.m_capacity = "FixedCapacity" /\ capacity(pre) >= 1)
    => /\ alive
       /\ Readable(buf)
       /\ capacity(buf) = capacity(pre)
       /\ buf.m_policy = pre.m_policy
       /\ IF last.op = "construct"
          THEN ReadThroughAt(buf) = << >>
          ELSE ReadThroughAt(buf)
                 = DequeStep(ReadThroughAt(pre), last, capacity(pre), pre.m_policy.m_store)

\* a pop_back has taken the last of three different-ended elements of a
\* wrapped buffer after a push on the full buffer replaced an element
C34_Witness ==
    /\ Called({"pop_back"})
    /\ alive
    /\ pre.m_policy = [m_capacity |-> "FixedCapacity", m_store |-> "ReplaceOnFull"]
    /\ capacity(pre) = 3
    /\ full(pre)
    /\ pre.m_head = 2
    /\ ReadThroughAt(pre) = <<1, 1, 2>>
    /\ ReadThroughAt(buf) = <<1, 1>>

\* C35: in Dynamic capacity mode, from an empty buffer of any initial
\* capacity (0 and 1 included), every successful push_back, push_front,
\* pop_front and pop_back changes size() by exactly one (so size() is the
\* number of pushes minus the number of pops), takes the sequence read
\* through at() to that of an unbounded deque, pops fail only on an empty
\* buffer and pushes never, and a buffer a pop has drained to empty reports
\* empty() and not full().
C35_DynamicIsUnboundedDeque ==
    (subject = "circbuf" /\ pre.m_policy.m_capacity = "DynamicCapacity")
    => /\ alive
       /\ Readable(buf)
       /\ buf.m_policy = pre.m_policy
       /\ last.op = "construct" => size(buf) = 0 /\ empty(buf)
       /\ last.op \in {"push_back", "push_front"}
            => /\ last.err = "none"
               /\ size(buf) = size(pre) + 1
       /\ last.op \in {"pop_front", "pop_back"}
            => /\ (last.err = "none") = (size(pre) > 0)
               /\ last.err = "none" => size(buf) = size(pre) - 1
               /\ (last.err = "none" /\ size(pre) = 1) => (empty(buf) /\ ~full(buf))
       /\ last.op # "construct"
            => ReadThroughAt(buf)
                 = DequeStep(ReadThroughAt(pre), last, Len(ReadThroughAt(pre)) + 1, "ReplaceOnFull")

\* C36: in every reachable state with capacity > 0, tail is the full
\* sentinel or lies in 0 .. capacity - 1, tail is the sentinel exactly when
\* capacity elements are held, and head == tail means that none is held.
C36_TailInRange ==
    (subject = "circbuf" /\ alive /\ capacity(buf) > 0)
    => /\ buf.m_tail = npos \/ buf.m_tail < capacity(buf)
       /\ (buf.m_tail = npos) = (Cardinality(LiveSlots(buf)) = capacity(buf))
       /\ buf.m_head = buf.m_tail => LiveSlots(buf) = {}

\* C37: begin() == end() holds exactly when the buffer is empty, and a walk
\* from begin() to end() over an empty buffer dereferences nothing and
\* raises no OutOfRange.
C37_EmptyWalk ==
    /\ (subject = "circbuf" /\ alive /\ ~divByZero(buf))
         => (CircularBuffer_begin(buf) = CircularBuffer_end(buf)) = empty(buf)
    /\ (Called({"iterate"}) /\ ~divByZero(pre) /\ empty(pre))
         => /\ alive
            /\ last.err = "none"
            /\ last.ret = << >>
            /\ buf = pre

\* C38: insert(size(), v, tie_break) on a full Fixed/ReplaceOnFull buffer
\* evicts by the tie-break and places v as the logically last element, just
\* as insert(size(), v, ...) on a non-full buffer appends v like push_back.
C38_InsertAtEndAppends ==
    /\ (/\ Called({"insert"})
        /\ IsFixed(pre) /\ Replaces(pre)
        /\ capacity(pre) >= 1 /\ full(pre)
        /\ last.pos = size(pre))
         => /\ Returned
            /\ Logical(buf) = Append(IF last.policy = "DiscardHead"
                                     THEN Tail(Logical(pre)) ELSE Front(Logical(pre)),
                                     last.value)
            /\ capacity(buf) = capacity(pre)
    /\ (Called({"insert"}) /\ ~full(pre) /\ last.pos = size(pre))
         => /\ Returned
            /\ Logical(buf) = Append(Logical(pre), last.value)
            /\ buf = Settled(push_back(pre, last.value).b)

\* C39: insert(pos, v, tie_break) with pos > size() is rejected and leaves
\* the buffer as it was: no slot is read, assigned or constructed, so no
\* access falls outside the occupied region.
C39_InsertBeyondEndRejected ==
    (Called({"insert"}) /\ ~divByZero(pre) /\ last.pos > size(pre))
    => /\ alive
       /\ last.err # "none"
       /\ buf = pre

\* C40: clear() destroys every live element exactly once and leaves the
\* capacity unchanged with size() == 0 and empty() true, for every capacity
\* (0 included) and for full buffers; size() stays well defined afterwards
\* (no modulo by a zero capacity), and so do the calls that use it.
C40_ClearEmpties ==
    Called({"clear"})
    => /\ alive
       /\ capacity(buf) = capacity(pre)
       /\ LiveSlots(buf) = {}
       /\ ~divByZero(buf)
       /\ size(buf) = 0
       /\ empty(buf)
       /\ buf.m_policy = pre.m_policy

\* C31: dereferencing a cursor fails with OutOfRange exactly when its
\* logical offset is at or beyond the size cached when the cursor was
\* created (the cursor then holds the end sentinel, or offset 0 of an empty
\* buffer), whatever pushes, pops, inserts and removes were made on the
\* buffer since; a dereference that does not fail leaves the buffer alone.
C31_CursorKeepsRange ==
    (Called({"deref"}) /\ cursor.live)
    => /\ alive
       /\ last.err \in {"none", "OutOfRange"}
       /\ (last.err = "OutOfRange")
            = (cursor.it.m_index = npos \/ cursor.it.m_index >= cursor.it.m_size)
       /\ buf = pre

====
